---- MODULE Spec2Model ----
(***************************************************************************)
(* Model of src/extract_chrominance.py: the channel transform              *)
(* (extract_chrominance_with_alpha), the batch orchestrator                *)
(* (batch_process_folder) and the command-line entry point.                *)
(*                                                                         *)
(* Strings are sequences of one-character strings, so that splitext,       *)
(* dirname, lower and the f-string number formatting are computed as the   *)
(* Python library computes them.                                           *)
(***************************************************************************)
EXTENDS Integers, Sequences, FiniteSets, TLC

(***************************************************************************)
(* Bounds of the model                                                     *)
(***************************************************************************)
\* how far outside 0..255 the alpha_value and y_value arguments are drawn
MaxOver == 2
\* number of concurrent callers of extract_chrominance_with_alpha
NProcs == 2
\* longest directory listing that is enumerated
MaxFiles == 2
\* how many times the same invocation is run against the same file system
MaxRuns == 2

None == <<"None">>

(***************************************************************************)
(* Python string helpers                                                   *)
(***************************************************************************)
\* str.rfind(c), 1-based; 0 when c does not occur
RFind(s, c) ==
  LET hits == {i \in 1..Len(s) : s[i] = c}
  IN  IF hits = {} THEN 0 ELSE CHOOSE i \in hits : \A j \in hits : j <= i

\* s[:n] and s[n:] of Python for 0 <= n <= len(s)
Prefix(s, n) == SubSeq(s, 1, n)
Suffix(s, n) == SubSeq(s, n + 1, Len(s))

\* str.lower() on the characters the model uses
LowerChar(c) ==
  CASE c = "P" -> "p"
    [] c = "N" -> "n"
    [] c = "G" -> "g"
    [] c = "J" -> "j"
    [] OTHER -> c

Lower(s) == [i \in 1..Len(s) |-> LowerChar(s[i])]

\* decimal digits of a natural number, as an f-string prints them
RECURSIVE NatToStr(_)
NatToStr(n) ==
  LET d == <<"0", "1", "2", "3", "4", "5", "6", "7", "8", "9">>
  IN  IF n < 10 THEN <<d[n + 1]>> ELSE NatToStr(n \div 10) \o <<d[(n % 10) + 1]>>

\* f"{n}" for an int
IntToStr(n) == IF n < 0 THEN <<"-">> \o NatToStr(0 - n) ELSE NatToStr(n)

\* os.path.splitext: the extension starts at the last dot of the last path
\* component; leading dots of that component do not start an extension
Splitext(p) ==
  LET sepIndex == RFind(p, "/")
      dotIndex == RFind(p, ".")
      real == dotIndex > sepIndex
              /\ \E k \in (sepIndex + 1)..(dotIndex - 1) : p[k] # "."
  IN  IF real THEN <<Prefix(p, dotIndex - 1), Suffix(p, dotIndex - 1)>>
      ELSE <<p, <<>>>>

\* strip trailing slashes
RECURSIVE RStripSlash(_)
RStripSlash(s) ==
  IF s # <<>> /\ s[Len(s)] = "/" THEN RStripSlash(Prefix(s, Len(s) - 1)) ELSE s

\* os.path.dirname
Dirname(p) ==
  LET head == Prefix(p, RFind(p, "/"))
  IN  IF head # <<>> /\ \E k \in 1..Len(head) : head[k] # "/"
      THEN RStripSlash(head) ELSE head

\* PurePath.suffix and PurePath.stem of a file name (no slash in it)
PathSuffix(name) ==
  LET i == RFind(name, ".")
  IN  IF 1 < i /\ i < Len(name) THEN Suffix(name, i - 1) ELSE <<>>

PathStem(name) ==
  LET i == RFind(name, ".")
  IN  IF 1 < i /\ i < Len(name) THEN Prefix(name, i - 1) ELSE name

\* folder / name, then str()
Join(folder, name) == folder \o <<"/">> \o name

(***************************************************************************)
(* Pixel arithmetic                                                        *)
(***************************************************************************)
\* max(0, min(255, int(v)))
Clamp(v) == IF v < 0 THEN 0 ELSE IF v > 255 THEN 255 ELSE v

\* y_value = max(0, min(255, int(y_value)))
ValidateY(y_value) == Clamp(y_value)

\* ValidateAlpha without the clamp: the value is used as passed
ValidateAlphaUnclamped(alpha_value) == alpha_value

\* alpha_value = max(0, min(255, int(alpha_value)))
ValidateAlpha(alpha_value) == Clamp(alpha_value)

\* rounding right shift by 14 bits of the 8-bit fixed-point colour conversion
Descale(v) == (v + 8192) \div 16384

\* cv2.cvtColor(bgr, cv2.COLOR_BGR2YCrCb) on one 8-bit pixel <<b, g, r>>
BGR2YCrCb(p) ==
  LET Y  == Descale(p[1] * 1868 + p[2] * 9617 + p[3] * 4899)
      Cr == Descale((p[3] - Y) * 11682 + 128 * 16384)
      Cb == Descale((p[1] - Y) * 9241 + 128 * 16384)
  IN  <<Clamp(Y), Clamp(Cr), Clamp(Cb)>>

\* cv2.cvtColor(ycrcb, cv2.COLOR_YCrCb2BGR) on one 8-bit pixel <<Y, Cr, Cb>>
YCrCb2BGR(q) ==
  LET b == q[1] + Descale((q[3] - 128) * 29049)
      g == q[1] + Descale((q[3] - 128) * (0 - 5636) + (q[2] - 128) * (0 - 11698))
      r == q[1] + Descale((q[2] - 128) * 22987)
  IN  <<Clamp(b), Clamp(g), Clamp(r)>>

\* The pairs <<y, alpha_value>> for which the double product
\* y * (alpha_value / 255.0) falls just below the exact quotient, an integer:
\* the truncation then gives one less than (y * alpha_value) \div 255.
FloatShort ==
  { <<51, 155>>, <<75, 187>>, <<85, 147>>, <<85, 171>>, <<102, 155>>,
    <<150, 187>>, <<153, 155>>, <<153, 195>>, <<165, 187>>, <<170, 147>>,
    <<170, 171>>, <<204, 155>> }

\* (y * scale_factor).astype(np.uint8) with scale_factor = alpha_value / 255.0
ScaleLuma(y, alpha_value) ==
  LET exact == (y * alpha_value) \div 255
      t == IF <<y, alpha_value>> \in FloatShort THEN exact - 1 ELSE exact
  IN  t % 256

\* lines 62-70: the alpha of one pixel from its original luma
DeriveAlpha(y_original, alpha_value) ==
  IF alpha_value = 255 THEN y_original ELSE ScaleLuma(y_original, alpha_value)

\* SnapshotLuma without the copy: a view of the channel, read after the
\* channel has been overwritten
SnapshotLumaView(before, after) == after[1]

\* y_original = ycrcb[:, :, 0].copy(), taken from the pixel before line 50
\* overwrites it (after is the pixel once overwritten)
SnapshotLuma(before, after) == before[1]

\* lines 35-72 on one pixel <<b, g, r>> or <<b, g, r, a>>; y_value and
\* alpha_value are the validated ones. The result keeps the luma/chroma form
\* from which the output colour was converted (ycrcb).
TransformPixel(p, y_value, alpha_mode, alpha_value) ==
  LET bgr    == SubSeq(p, 1, 3)
      ycrcb  == BGR2YCrCb(bgr)
      ycrcb2 == [ycrcb EXCEPT ![1] = y_value]
      y_original == IF alpha_mode THEN SnapshotLuma(ycrcb, ycrcb2) ELSE 0
      bgr_result == YCrCb2BGR(ycrcb2)
  IN  IF alpha_mode
      THEN [px |-> bgr_result \o <<DeriveAlpha(y_original, alpha_value)>>,
            ycrcb |-> ycrcb2]
      ELSE [px |-> bgr_result, ycrcb |-> ycrcb2]

\* an image is a sequence of pixels of equal length (1: grayscale, 2-D array)
Channels(img) == Len(img[1])

\* lines 35-72 on a decoded 3- or 4-channel image
Transform(img, y_value, alpha_mode, alpha_value) ==
  [i \in 1..Len(img) |-> TransformPixel(img[i], y_value, alpha_mode, alpha_value)]

(***************************************************************************)
(* String constants                                                        *)
(***************************************************************************)
S_png == <<".", "p", "n", "g">>
S_chroma_alpha_png == <<"_", "c", "h", "r", "o", "m", "a", "_", "a", "l", "p", "h", "a">> \o S_png
S_chroma_y == <<"_", "c", "h", "r", "o", "m", "a", "_", "y">>
S_chrominance == <<"c", "h", "r", "o", "m", "i", "n", "a", "n", "c", "e">>
S_alpha == <<"_", "a", "l", "p", "h", "a">>
S_y == <<"_", "y">>

\* image_extensions of batch_process_folder
image_extensions ==
  { <<".", "j", "p", "g">>, <<".", "j", "p", "e", "g">>, S_png,
    <<".", "b", "m", "p">>, <<".", "t", "i", "f">>, <<".", "t", "i", "f", "f">> }

(***************************************************************************)
(* The file system.  fs.dirs is the set of directories, fs.regs maps the   *)
(* path of every regular file that is not a source image to its content:   *)
(* [img, src], src being the input path the file was produced from.  The   *)
(* source folder's regular files are the entries of the listing.           *)
(***************************************************************************)
\* the source folder
D == <<"d">>

IsSource(listing, path) ==
  \E i \in 1..Len(listing) :
     listing[i].kind # "dir" /\ Join(D, listing[i].name) = path

\* os.path.exists / Path.exists
Exists(listing, fs, path) ==
  path \in fs.dirs \/ path \in DOMAIN fs.regs \/ IsSource(listing, path)

\* os.path.isdir; the empty path of a bare file name is the working directory
IsDir(fs, path) == path = <<>> \/ path \in fs.dirs

\* the path and every directory above it
RECURSIVE Ancestors(_)
Ancestors(path) ==
  IF Dirname(path) = <<>> \/ Dirname(path) = path THEN {path}
  ELSE {path} \cup Ancestors(Dirname(path))

\* os.makedirs(path) / Path.mkdir(parents=True): FileExistsError when the
\* path exists, NotADirectoryError when a regular file is in the way
Makedirs(listing, fs, path) ==
  IF Exists(listing, fs, path)
  THEN [exc |-> "FileExistsError", fs |-> fs]
  ELSE IF \E a \in Ancestors(path) : a \in DOMAIN fs.regs \/ IsSource(listing, a)
  THEN [exc |-> "NotADirectoryError", fs |-> fs]
  ELSE [exc |-> "", fs |-> [fs EXCEPT !.dirs = @ \cup Ancestors(path)]]

\* cv2.imread(path, cv2.IMREAD_UNCHANGED): None (ok = FALSE) for a missing or
\* undecodable file, else the decoded array
Imread(listing, path) ==
  IF \E i \in 1..Len(listing) :
        listing[i].kind = "image" /\ Join(D, listing[i].name) = path
  THEN LET i == CHOOSE i \in 1..Len(listing) :
                   listing[i].kind = "image" /\ Join(D, listing[i].name) = path
       IN  [ok |-> TRUE, img |-> listing[i].img]
  ELSE [ok |-> FALSE, img |-> <<>>]

\* cv2.imwrite(path, img): raises when no encoder handles the extension,
\* returns False when the file cannot be opened for writing
Imwrite(listing, fs, path, content) ==
  IF Lower(Splitext(path)[2]) \notin image_extensions
  THEN [ret |-> "raise", fs |-> fs]
  ELSE IF ~IsDir(fs, Dirname(path)) \/ path \in fs.dirs
  THEN [ret |-> "False", fs |-> fs]
  ELSE [ret |-> "True",
        fs |-> [fs EXCEPT !.regs =
                  [q \in (DOMAIN @) \cup {path} |-> IF q = path THEN content ELSE @[q]]]]

(***************************************************************************)
(* extract_chrominance_with_alpha                                          *)
(***************************************************************************)
\* AlphaOutputPath without lines 80-82: an explicit output path is kept as given
AlphaOutputPathKept(input_path, output_path) ==
  IF output_path = None
  THEN Splitext(input_path)[1] \o S_chroma_alpha_png
  ELSE output_path

\* lines 74-83: the output path in alpha mode
AlphaOutputPath(input_path, output_path) ==
  IF output_path = None
  THEN Splitext(input_path)[1] \o S_chroma_alpha_png
  ELSE IF Lower(Splitext(output_path)[2]) # S_png
       THEN Splitext(output_path)[1] \o S_png
       ELSE output_path

\* lines 88-91: the output path in fixed-luma mode (y_value validated)
LumaOutputPath(input_path, output_path, y_value) ==
  IF output_path = None
  THEN Splitext(input_path)[1] \o S_chroma_y \o IntToStr(y_value)
         \o Splitext(input_path)[2]
  ELSE output_path

\* lines 93-96: the result of Makedirs, or the file system as it is
EnsureOutputDir(listing, fs, output_dir) ==
  IF output_dir # <<>> /\ ~Exists(listing, fs, output_dir)
  THEN Makedirs(listing, fs, output_dir)
  ELSE [exc |-> "", fs |-> fs]

\* One call, lines 23-109.  ret is "True", "False" or "raise" (exc names the
\* exception); io lists the file-system operations of the call in order.
extract_chrominance_with_alpha(listing, fs, input_path, output_path, y_value, alpha_mode, alpha_value) ==
  LET yv  == ValidateY(y_value)
      av  == ValidateAlpha(alpha_value)
      rdres == Imread(listing, input_path)
      img == rdres.img
      rd  == <<[op |-> "imread", path |-> input_path]>>
  IN
  IF ~rdres.ok
  THEN [ret |-> "False", exc |-> "", fs |-> fs, io |-> rd, path |-> <<>>]
  ELSE IF Channels(img) \notin {3, 4}
  THEN [ret |-> "raise", exc |-> "cv2.error", fs |-> fs, io |-> rd, path |-> <<>>]
  ELSE
    LET result_img == Transform(img, yv, alpha_mode, av)
        opath == IF alpha_mode THEN AlphaOutputPath(input_path, output_path)
                 ELSE LumaOutputPath(input_path, output_path, yv)
        output_dir == Dirname(opath)
        mk  == EnsureOutputDir(listing, fs, output_dir)
        mkio == IF output_dir # <<>> /\ ~Exists(listing, fs, output_dir)
                THEN <<[op |-> "makedirs", path |-> output_dir]>> ELSE <<>>
        wr  == Imwrite(listing, mk.fs, opath, [img |-> result_img, src |-> input_path])
        wrio == <<[op |-> "imwrite", path |-> opath]>>
    IN
    IF mk.exc # ""
    THEN [ret |-> "raise", exc |-> mk.exc, fs |-> fs, io |-> rd \o mkio, path |-> opath]
    ELSE IF wr.ret = "raise"
    THEN [ret |-> "raise", exc |-> "cv2.error", fs |-> mk.fs,
          io |-> rd \o mkio \o wrio, path |-> opath]
    ELSE [ret |-> wr.ret, exc |-> "", fs |-> wr.fs,
          io |-> rd \o mkio \o wrio, path |-> opath]

(***************************************************************************)
(* State                                                                   *)
(***************************************************************************)
VARIABLES
  pc,             \* position of the sequential program: "cli", "call_single",
                  \* "call_batch", "loop", "done", "raised", "usage_error"
  args,           \* the invocation: entry, mode, input, output, y_value,
                  \* alpha_mode, alpha_value
  listing,        \* the entries of the source folder, in enumeration order
  fs,             \* directories and regular files outside the listing
  output_folder,  \* batch_process_folder's local, once set up
  pending,        \* the entries input_folder.iterdir() yields in this run
  idx,            \* entries of pending the loop has taken
  count_success,
  count_fail,
  results,        \* per visited image file: its name, output path and outcome
  io,             \* file-system operations of the current run, in order
  fault,          \* the exception that ended the run, "" if none
  run,            \* 1 for the first run, 2 for the repeated one
  first,          \* outcome of the previous run
  tin,            \* the transform alone: the inputs drawn
  tout,           \* the transform alone: the output image, <<>> before the call
  procs,          \* concurrent callers: per caller its arguments and position
  fs0             \* concurrent callers: the file system they started on

vars == <<pc, args, listing, fs, output_folder, pending, idx, count_success,
          count_fail, results, io, fault, run, first, tin, tout, procs, fs0>>

seqVars == <<pc, args, listing, fs, output_folder, pending, idx, count_success,
             count_fail, results, io, fault, run, first>>
pxVars == <<tin, tout>>
parVars == <<procs, fs0>>

(***************************************************************************)
(* Inputs                                                                  *)
(***************************************************************************)
\* entries a source folder may hold
Candidates ==
  { [name |-> <<"a", ".", "j", "p", "g">>, kind |-> "image",
     img |-> <<<<10, 200, 90>>>>],
    [name |-> <<"a", ".", "p", "n", "g">>, kind |-> "image",
     img |-> <<<<250, 30, 60, 7>>, <<0, 0, 0, 255>>>>],
    [name |-> <<"b", ".", "P", "N", "G">>, kind |-> "image",
     img |-> <<<<77>>>>],
    [name |-> <<"c", ".", "j", "p", "g">>, kind |-> "corrupt", img |-> <<>>] }

\* sequences without repetition of at most n candidates
RECURSIVE Listings(_)
Listings(n) ==
  IF n = 0 THEN {<<>>}
  ELSE LET shorter == Listings(n - 1)
       IN  shorter \cup
           { Append(l, c) : l \in {m \in shorter : Len(m) = n - 1},
                            c \in Candidates }

ValidListing(l) == \A i, j \in 1..Len(l) : i # j => l[i].name # l[j].name

YValues == {128, 300, 0 - 1}
AlphaValues == {100}
S_o == <<"o">>
OutputFolders == {None, S_o}
OutputFiles ==
  { None,
    <<"o", "/", "r", ".", "j", "p", "g">>,
    <<"o", "/", "r", ".", "P", "N", "G">>,
    <<"r", ".", "b", "m", "p">>,
    <<"o", "/", "r">> }

(***************************************************************************)
(* batch_process_folder                                                    *)
(***************************************************************************)
\* FolderSuffix without the alpha case: the suffix is always _y<y_value>
FolderSuffixLumaOnly(y_value, alpha_mode) == S_y \o IntToStr(y_value)

\* line 132; y_value is the argument as passed
FolderSuffix(y_value, alpha_mode) ==
  IF alpha_mode THEN S_alpha ELSE S_y \o IntToStr(y_value)

\* lines 133-136
OutputFolder(input_folder, out, y_value, alpha_mode) ==
  IF out = None
  THEN Join(input_folder, S_chrominance \o FolderSuffix(y_value, alpha_mode))
  ELSE out

\* BatchMkdir without the test of line 138: the directory is created without
\* looking first
BatchMkdirUnchecked(l, f, folder) == Makedirs(l, f, folder)

\* lines 138-139
BatchMkdir(l, f, folder) ==
  IF ~Exists(l, f, folder) THEN Makedirs(l, f, folder) ELSE [exc |-> "", fs |-> f]

\* lines 155-161; y_value is the argument as passed
OutputFilename(name, y_value, alpha_mode) ==
  IF alpha_mode THEN PathStem(name) \o S_alpha \o S_png
  ELSE PathStem(name) \o S_y \o IntToStr(y_value) \o PathSuffix(name)

\* line 154: the entry is a regular file with an allow-listed extension
IsImageFile(e) ==
  e.kind # "dir" /\ Lower(PathSuffix(e.name)) \in image_extensions

\* the last component of a path
Basename(path) == Suffix(path, RFind(path, "/"))

RECURSIVE SetToSeq(_)
SetToSeq(S) ==
  IF S = {} THEN <<>>
  ELSE LET e == CHOOSE e \in S : TRUE IN <<e>> \o SetToSeq(S \ {e})

\* input_folder.iterdir(): the listing, and what was created in the folder
\* since (directories, and regular files that are not source images)
Iterdir(l, f, folder) ==
  LET listed == {Join(folder, l[i].name) : i \in 1..Len(l)}
      newDirs == {q \in f.dirs : Dirname(q) = folder /\ q \notin listed}
      newRegs == {q \in DOMAIN f.regs : Dirname(q) = folder}
  IN  SetToSeq({[name |-> Basename(q), kind |-> "dir", img |-> <<>>] : q \in newDirs})
      \o l
      \o SetToSeq({[name |-> Basename(q), kind |-> "corrupt", img |-> <<>>] : q \in newRegs})

\* image files among the first n entries of a listing
RECURSIVE ImageFiles(_, _)
ImageFiles(p, n) ==
  IF n = 0 THEN 0
  ELSE ImageFiles(p, n - 1) + (IF IsImageFile(p[n]) THEN 1 ELSE 0)

\* decodable image files among the first n entries of a listing
RECURSIVE Decodable(_, _)
Decodable(p, n) ==
  IF n = 0 THEN 0
  ELSE Decodable(p, n - 1)
       + (IF IsImageFile(p[n]) /\ p[n].kind = "image" THEN 1 ELSE 0)

(***************************************************************************)
(* Sequential program: the entry point, one call, the batch loop           *)
(***************************************************************************)
Blocker == [img |-> <<>>, src |-> <<>>]

\* the file system before the first run: the source folder, its
\* sub-directories, and the output directory absent, present, or a regular
\* file of that name
InitFs(l, dExists, out, outState) ==
  [dirs |-> (IF dExists THEN {D} ELSE {})
            \cup {Join(D, l[i].name) : i \in {j \in 1..Len(l) : l[j].kind = "dir"}}
            \cup (IF outState = "dir" THEN Ancestors(out) ELSE {}),
   regs |-> IF outState = "file" THEN [q \in {out} |-> Blocker]
            ELSE [q \in {} |-> Blocker]]

NoOutcome ==
  [pc |-> "", fault |-> "", count_success |-> 0, count_fail |-> 0, io |-> <<>>]

InitLocals ==
  /\ output_folder = <<>>
  /\ pending = <<>>
  /\ idx = 0
  /\ count_success = 0
  /\ count_fail = 0
  /\ results = <<>>
  /\ io = <<>>
  /\ fault = ""
  /\ run = 1
  /\ first = NoOutcome

InitFolder ==
  \E l \in {m \in Listings(MaxFiles) : ValidListing(m)},
     entry \in {"cli", "core"}, out \in OutputFolders, y \in YValues,
     am \in BOOLEAN, av \in AlphaValues, outState \in {"absent", "dir", "file"},
     dExists \in BOOLEAN :
    /\ dExists \/ l = <<>>
    /\ listing = l
    /\ args = [entry |-> entry, mode |-> "folder", input |-> D, output |-> out,
               y_value |-> y, alpha_mode |-> am, alpha_value |-> av]
    /\ fs = InitFs(l, dExists, OutputFolder(D, out, y, am), outState)
    /\ pc = IF entry = "cli" THEN "cli" ELSE "call_batch"

InitFile ==
  \E l \in {m \in Listings(MaxFiles) : ValidListing(m) /\ Len(m) = 1},
     entry \in {"cli", "core"}, out \in OutputFiles, y \in YValues,
     am \in BOOLEAN, av \in AlphaValues, outState \in {"absent", "dir", "file"} :
    /\ l[1].kind # "dir"
    /\ listing = l
    /\ args = [entry |-> entry, mode |-> "file", input |-> Join(D, l[1].name),
               output |-> out, y_value |-> y, alpha_mode |-> am, alpha_value |-> av]
    /\ fs = InitFs(l, TRUE, S_o, outState)
    /\ pc = IF entry = "cli" THEN "cli" ELSE "call_single"

IdlePx == tin = <<>> /\ tout = <<>>
IdlePar == procs = <<>> /\ fs0 = <<>>

Init == (InitFolder \/ InitFile) /\ InitLocals /\ IdlePx /\ IdlePar

\* ModeConflict with the two options in no exclusive group
ModeConflictNever(a) == FALSE

\* lines 187-191: -y and -a given together
ModeConflict(a) == a.alpha_mode /\ a.y_value # 128

\* lines 176-200: parse_args.  -y and -a are in one mutually exclusive group;
\* argparse counts an option as given when its value is not the default, so
\* the conflict is -a together with a -y other than 128.
Main ==
  /\ pc = "cli"
  /\ pc' = IF ModeConflict(args) THEN "usage_error"
           ELSE IF args.mode = "file" THEN "call_single" ELSE "call_batch"
  /\ UNCHANGED <<args, listing, fs, output_folder, pending, idx, count_success,
                 count_fail, results, io, fault, run, first>>
  /\ UNCHANGED <<pxVars, parVars>>

\* line 204, or a direct call of extract_chrominance_with_alpha
SingleRun ==
  /\ pc = "call_single"
  /\ LET r == extract_chrominance_with_alpha(listing, fs, args.input, args.output,
                 args.y_value, args.alpha_mode, args.alpha_value)
     IN  /\ pc' = IF r.ret = "raise" THEN "raised" ELSE "done"
         /\ fault' = r.exc
         /\ fs' = r.fs
         /\ io' = io \o r.io
         /\ results' = <<[name |-> args.input, path |-> r.path, ret |-> r.ret]>>
  /\ UNCHANGED <<args, listing, output_folder, pending, idx, count_success,
                 count_fail, run, first>>
  /\ UNCHANGED <<pxVars, parVars>>

\* lines 125-150: up to the loop
BatchSetup ==
  /\ pc = "call_batch"
  /\ IF ~IsDir(fs, args.input)
     THEN /\ pc' = "done"
          /\ io' = io \o <<[op |-> "exists", path |-> args.input]>>
          /\ UNCHANGED <<fs, output_folder, pending, fault>>
     ELSE LET folder == OutputFolder(args.input, args.output, args.y_value,
                                     args.alpha_mode)
              mk == BatchMkdir(listing, fs, folder)
          IN  /\ output_folder' = folder
              /\ io' = io \o <<[op |-> "exists", path |-> args.input],
                               [op |-> "exists", path |-> folder]>>
                       \o (IF Exists(listing, fs, folder) /\ mk.exc = "" THEN <<>>
                           ELSE <<[op |-> "mkdir", path |-> folder]>>)
              /\ fs' = mk.fs
              /\ fault' = mk.exc
              /\ pc' = IF mk.exc # "" THEN "raised" ELSE "loop"
              /\ pending' = IF mk.exc # "" THEN <<>>
                            ELSE Iterdir(listing, mk.fs, args.input)
  /\ UNCHANGED <<args, listing, idx, count_success, count_fail, results, run, first>>
  /\ UNCHANGED <<pxVars, parVars>>

\* lines 153-166: one iteration of the loop
BatchIter ==
  /\ pc = "loop"
  /\ idx < Len(pending)
  /\ idx' = idx + 1
  /\ LET e == pending[idx + 1] IN
     IF IsImageFile(e)
     THEN LET output_path == Join(output_folder,
                                  OutputFilename(e.name, args.y_value, args.alpha_mode))
              r == extract_chrominance_with_alpha(listing, fs, Join(args.input, e.name),
                     output_path, args.y_value, args.alpha_mode, args.alpha_value)
          IN  /\ fs' = r.fs
              /\ io' = io \o r.io
              /\ results' = Append(results, [name |-> Join(args.input, e.name),
                                             path |-> r.path, ret |-> r.ret])
              /\ count_success' = count_success + (IF r.ret = "True" THEN 1 ELSE 0)
              /\ count_fail' = count_fail + (IF r.ret = "False" THEN 1 ELSE 0)
              /\ pc' = IF r.ret = "raise" THEN "raised" ELSE "loop"
              /\ fault' = r.exc
     ELSE UNCHANGED <<fs, io, results, count_success, count_fail, pc, fault>>
  /\ UNCHANGED <<args, listing, output_folder, pending, run, first>>
  /\ UNCHANGED <<pxVars, parVars>>

\* lines 168-173: the summary and the return of (count_success, count_fail)
BatchReturn ==
  /\ pc = "loop"
  /\ idx = Len(pending)
  /\ pc' = "done"
  /\ UNCHANGED <<args, listing, fs, output_folder, pending, idx, count_success,
                 count_fail, results, io, fault, run, first>>
  /\ UNCHANGED <<pxVars, parVars>>

\* the same invocation once more, on the file system the previous run left
Rerun ==
  /\ pc \in {"done", "raised"}
  /\ run < MaxRuns
  /\ run' = run + 1
  /\ first' = [pc |-> pc, fault |-> fault, count_success |-> count_success,
               count_fail |-> count_fail, io |-> io]
  /\ pc' = IF args.mode = "file" THEN "call_single" ELSE "call_batch"
  /\ output_folder' = <<>>
  /\ pending' = <<>>
  /\ idx' = 0
  /\ count_success' = 0
  /\ count_fail' = 0
  /\ results' = <<>>
  /\ io' = <<>>
  /\ fault' = ""
  /\ UNCHANGED <<args, listing, fs>>
  /\ UNCHANGED <<pxVars, parVars>>

Next == Main \/ SingleRun \/ BatchSetup \/ BatchIter \/ BatchReturn \/ Rerun

Spec == Init /\ [][Next]_vars

(***************************************************************************)
(* Properties of the sequential program                                    *)
(***************************************************************************)
InBatch == args.mode = "folder"
Finished == pc \in {"done", "raised"}
\* files written by a run (the regular file standing in the way of an output
\* directory is not one)
Written == {q \in DOMAIN fs.regs : fs.regs[q] # Blocker}
Ops(kind) == {i \in 1..Len(io) : io[i].op = kind}

\* C1: in a batch whose output folder is a directory, the two counters add up
\* to the number of image files visited so far, and the batch ends having
\* visited every image file, with as many successes as decodable files and as
\* many failures as undecodable ones.
C1_BatchCountsExact ==
  (InBatch /\ pc \in {"loop", "done", "raised"} /\ IsDir(fs, output_folder))
  => /\ count_success + count_fail = ImageFiles(pending, idx)
     /\ Finished =>
          /\ idx = Len(pending)
          /\ count_success = Decodable(pending, Len(pending))
          /\ count_fail = ImageFiles(pending, Len(pending))
                          - Decodable(pending, Len(pending))

\* C2: no error of one file leaves batch_process_folder as a raised fault.
C2_NoFaultLeavesBatch == InBatch => pc # "raised"

\* C3 (as claimed): with y_value other than 128 and alpha_mode set, every
\* entry, the core functions included, stops before any I/O.
C3_ConfigErrorEverywhere ==
  (args.alpha_mode /\ args.y_value # 128)
  => /\ io = <<>>
     /\ Written = {}
     /\ pc \notin {"loop", "done", "raised"}

\* C3 (amended): the command line rejects -a with a -y other than 128 before
\* any I/O; the core functions called directly with the same values check
\* nothing and go on to their I/O.
C3_OnlyCliRejects ==
  (args.alpha_mode /\ args.y_value # 128)
  => /\ args.entry = "cli" =>
          pc \in {"cli", "usage_error"} /\ io = <<>> /\ Written = {} /\ run = 1
     /\ (args.entry = "core" /\ pc \in {"loop", "done", "raised"}) =>
          io # <<>> /\ pc # "usage_error"

C3_Witness ==
  /\ args.entry = "cli" /\ args.alpha_mode /\ args.y_value = 300
  /\ pc = "usage_error"

\* expected name of the default output folder and of a batch output file,
\* with the number n in the fixed-luma names
ExpectedFolder(n) ==
  IF args.alpha_mode THEN D \o <<"/">> \o S_chrominance \o S_alpha
  ELSE D \o <<"/">> \o S_chrominance \o S_y \o IntToStr(n)
ExpectedFile(src, n) ==
  IF args.alpha_mode THEN PathStem(Basename(src)) \o S_alpha \o S_png
  ELSE PathStem(Basename(src)) \o S_y \o IntToStr(n) \o PathSuffix(Basename(src))

\* C6 (as claimed): after a batch run with no explicit output folder (and no
\* regular file in the way of it), the folder has the default name and holds,
\* for every decodable source image, the file named after it and produced
\* from it.
C6_EverySourceHasItsOutput ==
  (InBatch /\ args.output = None /\ pc = "done" /\ output_folder # <<>>
     /\ IsDir(fs, output_folder))
  => /\ output_folder = ExpectedFolder(args.y_value)
     /\ \A i \in 1..Len(pending) :
          (IsImageFile(pending[i]) /\ pending[i].kind = "image") =>
            LET src == Join(D, pending[i].name)
                q == Join(output_folder, ExpectedFile(src, args.y_value))
            IN  q \in Written /\ fs.regs[q].src = src

\* the last visited source whose call returned True for the output path of
\* the i-th
LastWriter(i) ==
  CHOOSE j \in 1..Len(results) :
    /\ results[j].ret = "True" /\ results[j].path = results[i].path
    /\ \A k \in 1..Len(results) :
         (results[k].ret = "True" /\ results[k].path = results[i].path) => k <= j

\* C6 (amended): in a batch run with no explicit output folder, the folder
\* has the default name (the number in it is y_value as passed) and exists,
\* and for every source whose call returned True it holds the file named
\* after that source; the file is the product of the last such source of
\* that output name.
C6_OutputsOfSuccessfulSources ==
  (InBatch /\ args.output = None /\ output_folder # <<>>
     /\ (pc \in {"loop", "done"} \/ (pc = "raised" /\ idx > 0)))
  => /\ output_folder = ExpectedFolder(args.y_value)
     /\ Exists(listing, fs, output_folder)
     /\ \A i \in 1..Len(results) :
          results[i].ret = "True" =>
            /\ results[i].path
                 = Join(output_folder, ExpectedFile(results[i].name, args.y_value))
            /\ results[i].path \in Written
            /\ fs.regs[results[i].path].src = results[LastWriter(i)].name

C6_Witness ==
  /\ InBatch /\ args.output = None /\ args.alpha_mode /\ pc = "done"
  /\ Len(results) = 2 /\ results[1].ret = "True" /\ results[2].ret = "True"
  /\ results[1].path = results[2].path
  /\ results[1].path = <<"d", "/">> \o S_chrominance
                         \o <<"_", "a", "l", "p", "h", "a", "/", "a", "_", "a",
                              "l", "p", "h", "a", ".", "p", "n", "g">>
  /\ fs.regs[results[1].path].src = results[2].name

C9_DirectoryCreationIdempotent ==
  /\ \A i \in Ops("imwrite") :
       Dirname(io[i].path) = <<>> \/ Exists(listing, fs, Dirname(io[i].path))
  /\ \A q \in Written : IsDir(fs, Dirname(q))
  /\ fault # "FileExistsError"
  /\ (run > 1 /\ Finished) =>
       /\ pc = first.pc /\ fault = first.fault
       /\ count_success = first.count_success
       /\ count_fail = first.count_fail

C9_Witness ==
  /\ InBatch /\ run = 2 /\ pc = "done" /\ count_success = 2
  /\ \E i \in 1..Len(first.io) : first.io[i].op = "mkdir"
  /\ Ops("mkdir") = {} /\ Ops("makedirs") = {}

\* the luma a written file was given (line 50), the same for all its pixels
LumaOf(q) == fs.regs[q].img[1].ycrcb[1]

\* C10: in fixed-luma mode the number in every generated name is the luma
\* written to the file: the default name of a single file, the default batch
\* folder and the batch file names.
C10_NameCarriesWrittenLuma ==
  ~args.alpha_mode =>
    \A q \in Written :
      /\ (~InBatch /\ args.output = None) =>
            q = Splitext(args.input)[1] \o S_chroma_y \o IntToStr(LumaOf(q))
                  \o Splitext(args.input)[2]
      /\ InBatch =>
            Basename(q) = ExpectedFile(fs.regs[q].src, LumaOf(q))
      /\ (InBatch /\ args.output = None) =>
            Dirname(q) = ExpectedFolder(LumaOf(q))

(***************************************************************************)
(* The transform on drawn inputs                                           *)
(***************************************************************************)
\* lines 24-25 and 35-72: the output image of one call
TransformCall(img, y_value, alpha_mode, alpha_value) ==
  Transform(img, ValidateY(y_value), alpha_mode, ValidateAlpha(alpha_value))

\* lumas drawn for grey pixels <<v, v, v>>, whose luma is v
LumaSamples ==
  {0, 1, 2, 51, 75, 85, 102, 127, 128, 150, 153, 165, 170, 204, 254, 255}

PxImages ==
  { <<<<v, v, v>>>> : v \in LumaSamples }
  \cup { <<<<10, 200, 90>>>>,
         <<<<250, 30, 60, 7>>, <<0, 0, 0, 255>>>>,
         <<<<255, 255, 255, 0>>>> }

AlphaArgs == (0 - MaxOver)..(255 + MaxOver)

IdleSeq ==
  /\ pc = "idle" /\ args = <<>> /\ output_folder = <<>> /\ pending = <<>>
  /\ idx = 0 /\ count_success = 0 /\ count_fail = 0 /\ results = <<>>
  /\ io = <<>> /\ fault = "" /\ run = 1 /\ first = NoOutcome

InitPx ==
  /\ \E img \in PxImages, y \in {7, 255 + MaxOver}, am \in BOOLEAN,
        av \in AlphaArgs :
       tin = [img |-> img, y_value |-> y, alpha_mode |-> am, alpha_value |-> av]
  /\ tout = <<>>
  /\ IdleSeq /\ listing = <<>> /\ fs = <<>> /\ IdlePar

\* one call of the transform on the drawn inputs
ApplyTransform ==
  /\ tout = <<>>
  /\ tout' = TransformCall(tin.img, tin.y_value, tin.alpha_mode, tin.alpha_value)
  /\ UNCHANGED <<tin, seqVars, parVars>>

NextPx == ApplyTransform

SpecPx == InitPx /\ [][NextPx]_vars

\* the luma of the i-th input pixel, from its colour channels alone
InputLuma(i) == BGR2YCrCb(SubSeq(tin.img[i], 1, 3))[1]

\* C4: in alpha mode with alpha_value 255 (after validation) the alpha of
\* every output pixel is the luma the input pixel had, whatever y_value is
\* and whatever alpha the input carried.
C4_AlphaIsOriginalLuma ==
  (tout # <<>> /\ tin.alpha_mode /\ Clamp(tin.alpha_value) = 255)
  => \A i \in 1..Len(tout) : tout[i].px[4] = InputLuma(i)

C4_Witness ==
  /\ tout # <<>> /\ tin.alpha_mode /\ tin.alpha_value = 255 /\ tin.y_value = 7
  /\ tin.img = <<<<250, 30, 60, 7>>, <<0, 0, 0, 255>>>>
  /\ tout[1].px[4] = 64 /\ tout[2].px[4] = 0
  /\ tout[1].ycrcb[1] = 7

\* C5: the derived alpha is an integer of 0..255, and for a fixed original
\* luma it does not decrease when alpha_value grows: against every other
\* alpha_value a2, the output for the smaller of the two is at most the
\* output for the larger.
C5_AlphaMonotoneInScale ==
  (tout # <<>> /\ tin.alpha_mode)
  => \A i \in 1..Len(tout) :
       /\ tout[i].px[4] \in 0..255
       /\ \A a2 \in AlphaArgs :
            LET other == TransformCall(<<tin.img[i]>>, tin.y_value, TRUE, a2)[1].px[4]
            IN  /\ tin.alpha_value <= a2 => tout[i].px[4] <= other
                /\ a2 <= tin.alpha_value => other <= tout[i].px[4]

C5_Witness ==
  /\ tout # <<>> /\ tin.alpha_mode /\ tin.alpha_value = 155
  /\ tin.img = <<<<51, 51, 51>>>>
  /\ tout[1].px[4] = 30

(***************************************************************************)
(* Concurrent callers of extract_chrominance_with_alpha on one file system *)
(* Each call is cut at its file-system operations: the read (with the      *)
(* in-memory work up to line 94), the test of line 95, the makedirs of     *)
(* line 96, the write of line 99.                                          *)
(***************************************************************************)
ParOutputs ==
  { <<"o", "/", "v", ".", "p", "n", "g">>,
    <<"q", "/", "v", ".", "p", "n", "g">>,
    None }

\* the explicit output path of caller i: all in the same directory o, but
\* for the last caller, whose output is drawn
ParOutput(i, last) ==
  IF i = NProcs THEN last
  ELSE <<"o", "/", "u">> \o IntToStr(i) \o <<".", "p", "n", "g">>

InitPar ==
  /\ \E l \in {m \in Listings(NProcs) : ValidListing(m) /\ Len(m) = NProcs},
        last \in ParOutputs, am \in BOOLEAN, outState \in {"absent", "dir"} :
       /\ listing = l
       /\ fs = InitFs(l, TRUE, S_o, outState)
       /\ fs0 = InitFs(l, TRUE, S_o, outState)
       /\ procs = [i \in 1..NProcs |->
                     [input |-> Join(D, l[i].name), output |-> ParOutput(i, last),
                      alpha_mode |-> am, pc |-> "read", opath |-> <<>>,
                      content |-> Blocker, ret |-> "", exc |-> ""]]
  /\ IdleSeq /\ IdlePx

\* lines 23-94 of caller i
ParRead(i) ==
  /\ procs[i].pc = "read"
  /\ LET me == procs[i]
         rd == Imread(listing, me.input)
     IN  procs' = [procs EXCEPT ![i] =
           IF ~rd.ok THEN [me EXCEPT !.pc = "done", !.ret = "False"]
           ELSE IF Channels(rd.img) \notin {3, 4}
           THEN [me EXCEPT !.pc = "done", !.ret = "raise", !.exc = "cv2.error"]
           ELSE [me EXCEPT
                   !.pc = "check",
                   !.opath = IF me.alpha_mode THEN AlphaOutputPath(me.input, me.output)
                             ELSE LumaOutputPath(me.input, me.output, ValidateY(128)),
                   !.content = [img |-> Transform(rd.img, ValidateY(128), me.alpha_mode,
                                                  ValidateAlpha(255)),
                                src |-> me.input]]]
  /\ UNCHANGED <<fs, fs0, seqVars, pxVars>>
  /\ UNCHANGED listing

\* line 95 of caller i
ParCheck(i) ==
  /\ procs[i].pc = "check"
  /\ LET output_dir == Dirname(procs[i].opath)
     IN  procs' = [procs EXCEPT ![i].pc =
           IF output_dir # <<>> /\ ~Exists(listing, fs, output_dir)
           THEN "makedirs" ELSE "write"]
  /\ UNCHANGED <<fs, fs0, pc, args, output_folder, pending, idx, count_success,
                 count_fail, results, io, fault, run, first, listing, pxVars>>

\* line 96 of caller i
ParMakedirs(i) ==
  /\ procs[i].pc = "makedirs"
  /\ LET mk == Makedirs(listing, fs, Dirname(procs[i].opath))
     IN  /\ fs' = mk.fs
         /\ procs' = [procs EXCEPT ![i] =
              IF mk.exc # "" THEN [@ EXCEPT !.pc = "done", !.ret = "raise", !.exc = mk.exc]
              ELSE [@ EXCEPT !.pc = "write"]]
  /\ UNCHANGED <<fs0, pc, args, output_folder, pending, idx, count_success,
                 count_fail, results, io, fault, run, first, listing, pxVars>>

\* lines 99-109 of caller i
ParWrite(i) ==
  /\ procs[i].pc = "write"
  /\ LET wr == Imwrite(listing, fs, procs[i].opath, procs[i].content)
     IN  /\ fs' = wr.fs
         /\ procs' = [procs EXCEPT ![i] =
              [@ EXCEPT !.pc = "done", !.ret = wr.ret,
                        !.exc = IF wr.ret = "raise" THEN "cv2.error" ELSE ""]]
  /\ UNCHANGED <<fs0, pc, args, output_folder, pending, idx, count_success,
                 count_fail, results, io, fault, run, first, listing, pxVars>>

NextPar == \E i \in 1..NProcs : ParRead(i) \/ ParCheck(i) \/ ParMakedirs(i) \/ ParWrite(i)

SpecPar == InitPar /\ [][NextPar]_vars

\* the calls of callers 1..n one after another on the starting file system
RECURSIVE SeqRun(_)
SeqRun(n) ==
  IF n = 0 THEN [fs |-> fs0, rets |-> <<>>, excs |-> <<>>]
  ELSE LET before == SeqRun(n - 1)
           r == extract_chrominance_with_alpha(listing, before.fs, procs[n].input,
                  procs[n].output, 128, procs[n].alpha_mode, 255)
       IN  [fs |-> r.fs, rets |-> Append(before.rets, r.ret),
            excs |-> Append(before.excs, r.exc)]

AllDone == \A i \in 1..NProcs : procs[i].pc = "done"

\* C7: when concurrent calls on different inputs have all ended, each has the
\* result of the same calls run one after another (the same return value, no
\* exception the sequential run does not raise), and the same files and
\* directories exist.
C7_InterleavingsMatchSequential ==
  (procs # <<>> /\ AllDone)
  => LET seq == SeqRun(NProcs)
     IN  /\ \A i \in 1..NProcs :
              procs[i].ret = seq.rets[i] /\ procs[i].exc = seq.excs[i]
         /\ fs = seq.fs
====
